---- MODULE Spec2Model ----
(***************************************************************************)
(* Model of the user routes of the Medium-blog backend                     *)
(* (13/Medium-blog/backend/src/routes/user.ts): POST /signup and           *)
(* POST /signin.  Every request is an async handler; it is split at its    *)
(* awaits (body parse, store call, token sign), so requests interleave at  *)
(* exactly the points where the handlers yield.                            *)
(***************************************************************************)
EXTENDS Integers, Sequences, FiniteSets, TLC

\* Number of requests that arrive (requests are numbered in arrival order).
MaxReqs == 3

\* ------------------------------------------------------------------------
\* Request payloads
\* ------------------------------------------------------------------------
\* A field that is not in the JSON body (JavaScript undefined).
Absent == "<undefined>"

Emails == {Absent, "a@x.com", "b@x.com"}

SignupPasswords == {Absent, "", "p1"}

SigninPasswords == {Absent, "p1", "p2"}

\* name is optional: one payload leaves it out.
SignupBodies ==
  [email : Emails, password : SignupPasswords, name : {"Ann"}]
    \cup [email : {"a@x.com"}, password : {"p1"}, name : {Absent}]

SigninBodies == [email : Emails, password : SigninPasswords, name : {Absent}]

\* The body of a request whose JSON could not be parsed.
NoBody == [email |-> Absent, password |-> Absent, name |-> Absent]

\* JavaScript truthiness of an optional string: !v holds for undefined and "".
Falsy(v) == v = Absent \/ v = ""

\* ------------------------------------------------------------------------
\* Validator (package medium-vlog-project)
\* ------------------------------------------------------------------------
WellFormedEmail(e) == e # Absent /\ e # ""

\* signup schema: a present, well-formed email and a present password;
\* name is optional.
signupInput(body) == WellFormedEmail(body.email) /\ body.password # Absent

\* signin schema: email and password present, email format-checked.
signinInput(body) == WellFormedEmail(body.email) /\ body.password # Absent

\* ------------------------------------------------------------------------
\* Token Issuer (hono/jwt sign) and its inverse
\* ------------------------------------------------------------------------
JWT_SECRET == 7

Mac(id, secret) == (id * 31 + secret * 17) % 97

\* A token signed with another key than the secret handed in.
signOtherKey(id, secret) == <<id, Mac(id, secret + 1)>>

\* sign({ id }, secret): the payload followed by its keyed signature.
sign(id, secret) == <<id, Mac(id, secret)>>

\* The falsy token (empty string).
EmptyToken == <<>>

\* What a sign call can do: resolve with a token, resolve with a falsy
\* value, or reject.
SignOutcomes == {"token", "empty", "throw"}

\* ------------------------------------------------------------------------
\* Account Store (Prisma user table)
\* ------------------------------------------------------------------------
NoUser == [id |-> 0, name |-> Absent, email |-> Absent, password |-> Absent]

\* The result of decoding a token whose signature does not verify: the id
\* of no account.
Invalid == NoUser.id

\* Decoding a token with a secret: the id of its payload when the signature
\* is the one that secret gives, and a failure otherwise.
verify(token, secret) ==
  IF Len(token) = 2 /\ token[2] = Mac(token[1], secret)
    THEN token[1]
    ELSE Invalid

\* A store without the uniqueness constraint.
EmailNeverTaken(us, email) == FALSE

\* The uniqueness constraint on email, enforced by the store.
EmailTaken(us, email) == \E u \in us : u.email = email

\* Identifier the store assigns to a new account.
NextId(us) == Cardinality(us) + 1

\* prisma.user.findUnique({ where }): the matching row, or null.
findUnique(us, where) ==
  IF \E u \in us : \A f \in DOMAIN where : u[f] = where[f]
    THEN CHOOSE u \in us : \A f \in DOMAIN where : u[f] = where[f]
    ELSE NoUser

\* ------------------------------------------------------------------------
\* Responses
\* ------------------------------------------------------------------------
\* c.json("text"): a plain string payload.
Plain(text) == [text |-> text, keys |-> {}, token |-> EmptyToken]

\* c.json({ <msgKey>: text, token: token }): an object payload.
Object(msgKey, text, token) ==
  [text |-> text, keys |-> {msgKey, "token"}, token |-> token]

NoPayload == [text |-> "", keys |-> {}, token |-> EmptyToken]

\* A request context as the handler starts: the status of a Hono context
\* is 200 until c.status() changes it.
NewReq(kind, parsed, body) ==
  [kind |-> kind, pc |-> "start", parsed |-> parsed, body |-> body,
   status |-> 200, payload |-> NoPayload, user |-> NoUser,
   token |-> EmptyToken, err |-> "none", storeCalls |-> 0, signCalls |-> 0]

\* c.status(s)
Status(r, s) == [r EXCEPT !.status = s]

\* return c.json(p)
Json(r, p) == [r EXCEPT !.payload = p, !.pc = "done"]

VARIABLES users, reqs

vars == <<users, reqs>>

Init ==
  /\ users = {}
  /\ reqs = <<>>

\* ------------------------------------------------------------------------
\* POST /signup
\* ------------------------------------------------------------------------
\* The catch block without its c.status(500).
SignupCatchNoStatus(r, e) ==
  Json([r EXCEPT !.err = e], Plain("Failed to create user"))

\* The catch block calling the store once more before it gives up.
SignupCatchRetries(r, e) ==
  IF r.storeCalls = 1 /\ e # "MalformedRequest"
    THEN [r EXCEPT !.pc = "create", !.storeCalls = @ + 1]
    ELSE Json(Status([r EXCEPT !.err = e], 500), Plain("Failed to create user"))

\* catch (error) { c.status(500); return c.json("Failed to create user"); }
SignupCatch(r, e) ==
  Json(Status([r EXCEPT !.err = e], 500), Plain("Failed to create user"))

\* The schema verdict ignored.
SignupNeverRejects(body) == FALSE

\* if (!success)
SignupRejects(body) == ~signupInput(body)

\* The name left out of the data handed to the store.
SignupDataNoName(body) ==
  [name |-> Absent, email |-> body.email, password |-> body.password]

\* The password transformed before it is stored, while signin looks up the
\* password as typed.
SignupDataHashed(body) ==
  [name |-> body.name, email |-> body.email, password |-> "hash-of-password"]

\* data: { name: body?.name, email: body.email, password: body.password }
SignupData(body) ==
  [name |-> body.name, email |-> body.email, password |-> body.password]

\* The synchronous part of the handler after the body was parsed: schema
\* validation, the presence check, and the call of prisma.user.create.
SignupValidate(r) ==
  IF SignupRejects(r.body)
    THEN Json(Status(r, 411), Plain("Invalid input"))
    ELSE IF Falsy(r.body.email) \/ Falsy(r.body.password)
      THEN Json(r, Plain("Invalid email or password"))
      ELSE [r EXCEPT !.pc = "create", !.storeCalls = @ + 1]

\* A signup request arrives and await c.req.json() settles.
Signup ==
  /\ Len(reqs) < MaxReqs
  /\ \/ reqs' = Append(reqs,
                  SignupCatch(NewReq("signup", FALSE, NoBody), "MalformedRequest"))
     \/ \E body \in SignupBodies :
          reqs' = Append(reqs, SignupValidate(NewReq("signup", TRUE, body)))
  /\ UNCHANGED users

\* await prisma.user.create(...) settles, and sign() is called.
SignupCreate(i) ==
  /\ reqs[i].kind = "signup"
  /\ reqs[i].pc = "create"
  /\ LET data == SignupData(reqs[i].body)
         u == [id |-> NextId(users), name |-> data.name,
               email |-> data.email, password |-> data.password]
     IN \/ /\ reqs' = [reqs EXCEPT ![i] = SignupCatch(@, "StoreUnreachable")]
           /\ UNCHANGED users
        \/ /\ EmailTaken(users, data.email)
           /\ reqs' = [reqs EXCEPT ![i] = SignupCatch(@, "Conflict")]
           /\ UNCHANGED users
        \/ /\ ~EmailTaken(users, data.email)
           /\ users' = users \cup {u}
           /\ reqs' = [reqs EXCEPT ![i] =
                         [@ EXCEPT !.user = u, !.pc = "sign", !.signCalls = @ + 1]]

\* if (!token) { c.status(500); return c.json("Failed to create token"); }
\* return c.json({ mesaage: "User created Successfully", token: token });
SignupRespond(r, token) ==
  IF token = EmptyToken
    THEN Json(Status([r EXCEPT !.token = token], 500), Plain("Failed to create token"))
    ELSE Json([r EXCEPT !.token = token],
              Object("mesaage", "User created Successfully", token))

\* await sign({ id: user.id }, c.env.JWT_SECRET) settles.
SignupSign(i) ==
  /\ reqs[i].kind = "signup"
  /\ reqs[i].pc = "sign"
  /\ \E out \in SignOutcomes :
       reqs' = [reqs EXCEPT ![i] =
                  IF out = "throw"
                    THEN SignupCatch(@, "SignError")
                    ELSE SignupRespond(@, IF out = "token"
                                            THEN sign(@.user.id, JWT_SECRET)
                                            ELSE EmptyToken)]
  /\ UNCHANGED users

\* ------------------------------------------------------------------------
\* POST /signin
\* ------------------------------------------------------------------------
\* The catch block answering with the text of the exception it caught.
SigninCatchLeaks(r, e) ==
  Json(Status([r EXCEPT !.err = e], 500), Plain(e))

\* catch (error) { c.status(500); return c.json("Failed to login"); }
SigninCatch(r, e) ==
  Json(Status([r EXCEPT !.err = e], 500), Plain("Failed to login"))

\* if (!success)
SigninRejects(body) == ~signinInput(body)

\* The lookup keyed by email alone.
SigninWhereEmailOnly(body) == [email |-> body.email]

\* where: { email: body.email, password: body.password }
SigninWhere(body) == [email |-> body.email, password |-> body.password]

\* Schema validation and the call of prisma.user.findUnique.
SigninValidate(r) ==
  IF SigninRejects(r.body)
    THEN Json(Status(r, 411), Plain("Invalid input"))
    ELSE [r EXCEPT !.pc = "lookup", !.storeCalls = @ + 1]

\* A signin request arrives and await c.req.json() settles.
Signin ==
  /\ Len(reqs) < MaxReqs
  /\ \/ reqs' = Append(reqs,
                  SigninCatch(NewReq("signin", FALSE, NoBody), "MalformedRequest"))
     \/ \E body \in SigninBodies :
          reqs' = Append(reqs, SigninValidate(NewReq("signin", TRUE, body)))
  /\ UNCHANGED users

\* if (!user) { c.status(404); return c.json("User not found"); }
SigninFound(r, user) ==
  IF user = NoUser
    THEN Json(Status(r, 404), Plain("User not found"))
    ELSE [r EXCEPT !.user = user, !.pc = "sign", !.signCalls = @ + 1]

\* The lookup done as an upsert: a payload that matches no row rewrites the
\* password of the row with its email, or inserts a row.
SigninUpsert(i) ==
  /\ reqs[i].kind = "signin"
  /\ reqs[i].pc = "lookup"
  /\ LET found == findUnique(users, SigninWhere(reqs[i].body))
         old == {u \in users : u.email = reqs[i].body.email}
         row == [id |-> IF old = {} THEN NextId(users) ELSE (CHOOSE u \in old : TRUE).id,
                 name |-> Absent, email |-> reqs[i].body.email,
                 password |-> reqs[i].body.password]
     IN IF found # NoUser
          THEN /\ reqs' = [reqs EXCEPT ![i] = SigninFound(@, found)]
               /\ UNCHANGED users
          ELSE /\ reqs' = [reqs EXCEPT ![i] = SigninFound(@, row)]
               /\ users' = (users \ old) \cup {row}

\* await prisma.user.findUnique(...) settles, and sign() is called.
SigninFindUnique(i) ==
  /\ reqs[i].kind = "signin"
  /\ reqs[i].pc = "lookup"
  /\ \/ reqs' = [reqs EXCEPT ![i] = SigninCatch(@, "StoreUnreachable")]
     \/ reqs' = [reqs EXCEPT ![i] =
                   SigninFound(@, findUnique(users, SigninWhere(@.body)))]
  /\ UNCHANGED users

\* return c.json({ message: "User logged in successfully", token: token });
SigninRespond(r, token) ==
  Json([r EXCEPT !.token = token],
       Object("message", "User logged in successfully", token))

\* await sign({ id: user.id }, c.env.JWT_SECRET) settles.
SigninSign(i) ==
  /\ reqs[i].kind = "signin"
  /\ reqs[i].pc = "sign"
  /\ \E out \in SignOutcomes :
       reqs' = [reqs EXCEPT ![i] =
                  IF out = "throw"
                    THEN SigninCatch(@, "SignError")
                    ELSE SigninRespond(@, IF out = "token"
                                            THEN sign(@.user.id, JWT_SECRET)
                                            ELSE EmptyToken)]
  /\ UNCHANGED users

\* ------------------------------------------------------------------------
\* userRouter
\* ------------------------------------------------------------------------
Next ==
  \/ Signup
  \/ Signin
  \/ \E i \in DOMAIN reqs : SignupCreate(i)
  \/ \E i \in DOMAIN reqs : SignupSign(i)
  \/ \E i \in DOMAIN reqs : SigninFindUnique(i)
  \/ \E i \in DOMAIN reqs : SigninSign(i)

Spec == Init /\ [][Next]_vars

\* The step of request i that is pending: the settling of the store call or
\* of the sign call it awaits.
Settle(i) ==
  /\ i \in DOMAIN reqs
  /\ \/ SignupCreate(i)
     \/ SignupSign(i)
     \/ SigninFindUnique(i)
     \/ SigninSign(i)

\* Number of requests that arrive in the runs checked for termination.
MaxFairReqs == 2

Arrive ==
  /\ Len(reqs) < MaxFairReqs
  /\ \/ Signup
     \/ Signin

FairNext ==
  \/ Arrive
  \/ \E i \in DOMAIN reqs : Settle(i)

\* The router when every store call and every sign call returns or throws:
\* an await that can settle does settle.
FairSpec ==
  Init /\ [][FairNext]_vars /\ \A i \in 1..MaxFairReqs : WF_vars(Settle(i))

\* ------------------------------------------------------------------------
\* Vocabulary of the properties
\* ------------------------------------------------------------------------
Done(i) == reqs[i].pc = "done"

DoneSignups == {i \in DOMAIN reqs : reqs[i].kind = "signup" /\ Done(i)}

DoneSignins == {i \in DOMAIN reqs : reqs[i].kind = "signin" /\ Done(i)}

\* The response the caller sees: status code and payload.
Response(i) == <<reqs[i].status, reqs[i].payload>>

\* A success outcome is a response with the success status.
Success(i) == reqs[i].status = 200

TypeOK ==
  /\ \A u \in users : u.id \in 1..MaxReqs
  /\ \A i \in DOMAIN reqs :
       /\ reqs[i].kind \in {"signup", "signin"}
       /\ reqs[i].pc \in {"create", "lookup", "sign", "done"}
       /\ reqs[i].status \in {200, 404, 411, 500}

\* ------------------------------------------------------------------------
\* Properties
\* ------------------------------------------------------------------------
\* The signups that called prisma.user.create.
CreatingSignups == {i \in DoneSignups : reqs[i].storeCalls = 1}

\* C1: of two signups with the same email that both run through body parse,
\* validation, store create and token sign, in any interleaving, at most one
\* ends with a success outcome, and when one succeeds the other ends with
\* the failure the handler gives a rejected create: status 500, not 200.
C1_AtMostOneSignupSucceeds ==
  \A i \in CreatingSignups : \A j \in CreatingSignups :
    (i # j /\ reqs[i].body.email = reqs[j].body.email)
      => /\ ~(Success(i) /\ Success(j))
         /\ Success(i) => /\ reqs[j].status = 500
                          /\ reqs[j].payload = Plain("Failed to create user")
                          /\ reqs[j].user = NoUser

\* Two overlapping signups with one email: the one that arrived first lost
\* the race to the one that arrived second.
C1_Witness ==
  \E i \in CreatingSignups : \E j \in CreatingSignups :
    /\ i < j
    /\ reqs[i].body.email = reqs[j].body.email
    /\ reqs[i].err = "Conflict"
    /\ Success(j)

\* C2: a signup or signin whose parsed payload lacks email or password ends
\* with the validation failure (411) and makes no Account Store call.
C2_MissingFieldRejected ==
  \A i \in DOMAIN reqs :
    (reqs[i].parsed
       /\ (reqs[i].body.email = Absent \/ reqs[i].body.password = Absent))
      => /\ Done(i)
         /\ reqs[i].status = 411
         /\ reqs[i].payload = Plain("Invalid input")
         /\ reqs[i].storeCalls = 0
         /\ reqs[i].user = NoUser

C2_Witness ==
  /\ \E i \in DoneSignups :
       /\ reqs[i].parsed
       /\ reqs[i].body.email # Absent
       /\ reqs[i].body.password = Absent
       /\ reqs[i].status = 411
  /\ \E j \in DoneSignins :
       /\ reqs[j].parsed
       /\ reqs[j].body.email = Absent
       /\ reqs[j].status = 411

\* An account whose email and password both equal those of the payload.
Matches(us, body) ==
  {u \in us : u.email = body.email /\ u.password = body.password}

\* C3: when the lookup of a signin settles without a store failure, the
\* signin goes on to issue a token exactly when some stored account has both
\* the email and the password of the payload, and then for that account;
\* every mismatch gets the one not-found response (404), the same for an
\* unknown email as for a wrong password.  A finished signin carries a token
\* only for an account it matched.
C3_SigninMatchesExactly ==
  /\ [][\A i \in DOMAIN reqs :
          (/\ reqs[i].kind = "signin"
           /\ reqs[i].pc = "lookup"
           /\ reqs'[i].pc # "lookup"
           /\ reqs'[i].err # "StoreUnreachable")
            => IF Matches(users, reqs[i].body) # {}
                 THEN /\ reqs'[i].pc = "sign"
                      /\ reqs'[i].user \in Matches(users, reqs[i].body)
                 ELSE /\ reqs'[i].pc = "done"
                      /\ reqs'[i].status = 404
                      /\ reqs'[i].payload = Plain("User not found")]_vars
  /\ [](\A i \in DoneSignins :
          /\ reqs[i].status = 404 => reqs[i].payload = Plain("User not found")
          /\ (reqs[i].status = 200 /\ reqs[i].token # EmptyToken)
               => /\ reqs[i].user \in Matches(users, reqs[i].body)
                  /\ reqs[i].payload.token = sign(reqs[i].user.id, JWT_SECRET))

\* A wrong password for a known email and an unknown email, both answered
\* with the same response.
C3_Witness ==
  \E i \in DoneSignins : \E j \in DoneSignins :
    /\ reqs[i].status = 404
    /\ reqs[j].status = 404
    /\ EmailTaken(users, reqs[i].body.email)
    /\ ~EmailTaken(users, reqs[j].body.email)
    /\ Response(i) = Response(j)

\* A payload that passes the schema and the presence check.
ValidSignup(body) ==
  signupInput(body) /\ ~Falsy(body.email) /\ ~Falsy(body.password)

\* C4: a signup with a valid payload calls the store once; when the email is
\* held by no other account and the store answered, exactly one account
\* holds that email and it has the name, email and password of the payload;
\* and when the issuer then returned a token the response is the success
\* outcome carrying that non-empty token.
C4_FreshSignupCreatesOne ==
  \A i \in DOMAIN reqs :
    (reqs[i].kind = "signup" /\ reqs[i].parsed /\ ValidSignup(reqs[i].body))
      => /\ reqs[i].storeCalls = 1
         /\ (/\ reqs[i].pc # "create"
             /\ reqs[i].err # "StoreUnreachable"
             /\ ~EmailTaken(users \ {reqs[i].user}, reqs[i].body.email))
              => /\ reqs[i].user \in users
                 /\ reqs[i].user.name = reqs[i].body.name
                 /\ reqs[i].user.email = reqs[i].body.email
                 /\ reqs[i].user.password = reqs[i].body.password
                 /\ Cardinality({u \in users : u.email = reqs[i].body.email}) = 1
         /\ (Done(i) /\ reqs[i].token # EmptyToken)
              => /\ reqs[i].status = 200
                 /\ "token" \in reqs[i].payload.keys
                 /\ reqs[i].payload.token = reqs[i].token
                 /\ reqs[i].payload.token = sign(reqs[i].user.id, JWT_SECRET)

\* Two fresh signups, one of them without a name, both answered with a token.
C4_Witness ==
  \E i \in DoneSignups : \E j \in DoneSignups :
    /\ reqs[i].body.name = Absent
    /\ reqs[j].body.name # Absent
    /\ reqs[i].user \in users
    /\ reqs[j].user \in users
    /\ reqs[i].status = 200 /\ reqs[i].payload.token # EmptyToken
    /\ reqs[j].status = 200 /\ reqs[j].payload.token # EmptyToken

\* C5: no two stored accounts share an email.
C5_UniqueEmail ==
  \A u \in users : \A v \in users : u.email = v.email => u = v

\* Two accounts are stored and a third signup was turned away by the store.
C5_Witness ==
  /\ Cardinality(users) = 2
  /\ \E i \in DoneSignups : reqs[i].err = "Conflict"

\* C6: a signup reports a success outcome only when its account has been
\* persisted and a non-empty token has been issued for it.
C6_SuccessMeansPersistedAndToken ==
  \A i \in DoneSignups :
    Success(i)
      => /\ reqs[i].user \in users
         /\ reqs[i].token # EmptyToken
         /\ reqs[i].payload.token = reqs[i].token

\* The signups that failed for a reason other than a duplicate email: the
\* store was unreachable, the issuer threw, or the issuer gave no token.
OtherFailedSignups ==
  {j \in DoneSignups :
     \/ reqs[j].err \in {"StoreUnreachable", "SignError"}
     \/ reqs[j].err = "none" /\ reqs[j].user # NoUser /\ reqs[j].token = EmptyToken}

\* C7: a signup whose email already belongs to a stored account creates no
\* second account and ends with a failure whose response differs from the
\* response of every other failure of signup.
C7_ConflictDistinguishable ==
  \A i \in DoneSignups :
    reqs[i].err = "Conflict"
      => /\ Cardinality({u \in users : u.email = reqs[i].body.email}) = 1
         /\ reqs[i].user = NoUser
         /\ ~Success(i)
         /\ \A j \in OtherFailedSignups : Response(i) # Response(j)

\* The signups whose account creation failed.
CreationFailedSignups ==
  {j \in DoneSignups : reqs[j].err \in {"StoreUnreachable", "Conflict"}}

\* C8: a signup whose account was created and whose token issuer then threw
\* or gave no token ends without a success outcome, and with a response
\* that differs from the response of a failed account creation.
C8_TokenFailureDistinct ==
  \A i \in DoneSignups :
    (/\ reqs[i].user # NoUser
     /\ \/ reqs[i].err = "SignError"
        \/ reqs[i].err = "none" /\ reqs[i].token = EmptyToken)
      => /\ ~Success(i)
         /\ \A j \in CreationFailedSignups : Response(i) # Response(j)

\* C9: a signup payload that passes the schema but whose email or password
\* is absent or empty ends with status 411 and makes no store call.
C9_PresenceCheckIs411 ==
  \A i \in DoneSignups :
    (/\ reqs[i].parsed
     /\ signupInput(reqs[i].body)
     /\ (Falsy(reqs[i].body.email) \/ Falsy(reqs[i].body.password)))
      => /\ reqs[i].status = 411
         /\ reqs[i].storeCalls = 0

IsPlain(p) == p.keys = {}

HasMessageAndToken(p) == {"message", "token"} \subseteq p.keys

\* C10: a signup responds 200 with a message and a token field, or 411 or
\* 500 with a plain payload; a signin responds 200 with a message and a
\* token field, or 411, 404 or 500.
C10_ResponseShapes ==
  /\ \A i \in DoneSignups :
       \/ reqs[i].status = 200 /\ HasMessageAndToken(reqs[i].payload)
       \/ reqs[i].status \in {411, 500} /\ IsPlain(reqs[i].payload)
  /\ \A i \in DoneSignins :
       \/ reqs[i].status = 200 /\ HasMessageAndToken(reqs[i].payload)
       \/ reqs[i].status \in {411, 404, 500}

\* The requests that ended in their catch block.
Caught == {i \in DOMAIN reqs : reqs[i].err # "none"}

\* C11: an exception raised while a request parses its body, calls the store
\* or calls the issuer ends that request with status 500 and a plain
\* payload that is the same for every exception the handler can catch.
C11_ExceptionsGiveFixed500 ==
  \A i \in Caught :
    /\ Done(i)
    /\ reqs[i].status = 500
    /\ IsPlain(reqs[i].payload)
    /\ \A j \in Caught :
         reqs[i].kind = reqs[j].kind => Response(i) = Response(j)

\* A malformed body, an unreachable store and a throwing issuer, each caught.
C11_Witness ==
  \E i \in Caught : \E j \in Caught : \E k \in Caught :
    /\ reqs[i].err = "MalformedRequest"
    /\ reqs[j].err = "StoreUnreachable"
    /\ reqs[k].err = "SignError"
    /\ reqs[i].kind = "signin"
    /\ reqs[j].kind = "signin"
    /\ reqs[k].kind = "signup"

\* The requests answered with a token.
TokenResponses ==
  {i \in DOMAIN reqs :
     Done(i) /\ Success(i) /\ reqs[i].payload.token # EmptyToken}

\* C12: the token of a successful signup or signin decodes, with the
\* configured secret, to the id of the stored account that the request
\* created or matched, and to the id of no other account.
C12_TokenRoundTrip ==
  \A i \in TokenResponses :
    LET id == verify(reqs[i].payload.token, JWT_SECRET)
    IN /\ id # Invalid
       /\ id = reqs[i].user.id
       /\ reqs[i].user \in users
       /\ reqs[i].user.email = reqs[i].body.email
       /\ reqs[i].user.password = reqs[i].body.password
       /\ \A u \in users : u.id = id => u = reqs[i].user

\* Two accounts exist; a signup and a signin each got the token of their own.
C12_Witness ==
  \E i \in TokenResponses : \E j \in TokenResponses :
    /\ reqs[i].kind = "signup"
    /\ reqs[j].kind = "signin"
    /\ Cardinality(users) = 2
    /\ reqs[i].user.id # reqs[j].user.id

\* A step of a signin request: its arrival, or a step of one in flight.
SigninStep ==
  \/ /\ Len(reqs') = Len(reqs) + 1
     /\ reqs'[Len(reqs')].kind = "signin"
  \/ \E i \in DOMAIN reqs : reqs[i].kind = "signin" /\ reqs'[i] # reqs[i]

\* C13: no step of a signin changes the store, whatever the signin's
\* outcome; and no step of any request removes a stored account or changes
\* the id, email or password of one.
C13_SigninReadsOnly ==
  [][/\ SigninStep => users' = users
     /\ users \subseteq users'
     /\ \A u \in users : \A v \in users' : v.id = u.id => v = u]_vars

\* A signin that got a token and one that was turned away have both run
\* against a stored account, which is still there.
C13_Witness ==
  \E i \in DoneSignins : \E j \in DoneSignins :
    /\ reqs[i].status = 200
    /\ reqs[i].user \in users
    /\ reqs[j].status \in {404, 500}
    /\ reqs[j].body.email = reqs[i].body.email

\* C14: a signup that ends with a failure outcome leaves the stored accounts
\* as they were: the account it persisted, if any, is not left behind.
C14_FailedSignupLeavesNothing ==
  \A i \in DoneSignups :
    ~Success(i) => reqs[i].user \notin users

\* C15: a signin never answers 200 with an empty or absent token; when the
\* issuer throws or yields no token, the signin ends with a failure outcome.
C15_SigninNeverEmptyToken ==
  \A i \in DoneSignins :
    /\ Success(i) => /\ "token" \in reqs[i].payload.keys
                     /\ reqs[i].payload.token # EmptyToken
    /\ (reqs[i].signCalls = 1 /\ reqs[i].token = EmptyToken) => ~Success(i)

\* The signups that returned a success outcome for an account they created
\* with the email and password of body.
SucceededSignups(body) ==
  {s \in DoneSignups :
     /\ Success(s)
     /\ reqs[s].user \in users
     /\ reqs[s].body.email = body.email
     /\ reqs[s].body.password = body.password}

\* C16: once a signup with email e and password p has returned a success
\* outcome, the lookup of every signin with (e, p) that settles afterwards,
\* whatever requests ran in between, does not end in the not-found outcome:
\* unless the store fails it finds the account that signup created, and the
\* token the signin then returns decodes to the id of that account.
C16_SignupThenSigninFinds ==
  /\ [][\A j \in DOMAIN reqs :
          (/\ reqs[j].kind = "signin"
           /\ reqs[j].pc = "lookup"
           /\ reqs'[j].pc # "lookup"
           /\ SucceededSignups(reqs[j].body) # {})
            => /\ reqs'[j].status # 404
               /\ reqs'[j].err = "none"
                    => /\ reqs'[j].pc = "sign"
                       /\ \A s \in SucceededSignups(reqs[j].body) :
                            reqs'[j].user = reqs[s].user]_vars
  /\ [](\A j \in DoneSignins : \A s \in SucceededSignups(reqs[j].body) :
          /\ reqs[j].user # NoUser => reqs[j].user = reqs[s].user
          /\ (Success(j) /\ reqs[j].payload.token # EmptyToken)
               => verify(reqs[j].payload.token, JWT_SECRET) = reqs[s].user.id)

\* A signup succeeded, another request ran, and a signin that arrived after
\* both got the token of the account the signup created.
C16_Witness ==
  \E j \in DoneSignins : \E s \in SucceededSignups(reqs[j].body) :
    /\ s + 1 < j
    /\ Success(j)
    /\ verify(reqs[j].payload.token, JWT_SECRET) = reqs[s].user.id

\* How far a request has come: each await it passes raises its position.
Position(r) ==
  CASE r.pc \in {"create", "lookup"} -> 1
    [] r.pc = "sign" -> 2
    [] r.pc = "done" -> 3
    [] OTHER -> 0

\* C17: when every store and sign call returns or throws, every request
\* that arrived ends with a response; a request that has responded never
\* changes again, no step of a request is taken twice, and a request makes
\* at most one store call and at most one sign call.
C17_SinglePass ==
  /\ \A i \in 1..MaxFairReqs :
       [](i \in DOMAIN reqs => <>(i \in DOMAIN reqs /\ Done(i)))
  /\ [][\A i \in DOMAIN reqs :
          /\ Done(i) => reqs'[i] = reqs[i]
          /\ reqs'[i] # reqs[i] => Position(reqs'[i]) > Position(reqs[i])]_vars
  /\ [](\A i \in DOMAIN reqs :
          /\ reqs[i].storeCalls <= 1
          /\ reqs[i].signCalls <= 1)

\* Every request that can arrive has arrived and has been answered, among
\* them one that made a store call and a sign call.
C17_Witness ==
  /\ Len(reqs) = MaxFairReqs
  /\ \A i \in DOMAIN reqs : Done(i)
  /\ \E i \in DoneSignups : reqs[i].storeCalls = 1 /\ reqs[i].signCalls = 1
  /\ \E i \in DoneSignins : reqs[i].storeCalls = 1 /\ reqs[i].signCalls = 1

====
